---------------------------- MODULE Spec2Model ----------------------------
(***************************************************************************)
(* A model of static/fom_emulator/fom_emulator.py: the grid loader         *)
(* (load_foms), the strategy-table loader (load_strategy_table) and the    *)
(* emulator (emulate_fom) as the script's per-year loop calls it.          *)
(*                                                                         *)
(* Floating-point numbers are modelled as a binary format with a           *)
(* Precision-bit significand, unbounded exponent, round-to-nearest-even,   *)
(* NaN and infinities.  The script computes in IEEE doubles (53 bits);     *)
(* the model keeps the rounding of every multiplication, division and      *)
(* decimal parse, at a narrower significand.                               *)
(***************************************************************************)
EXTENDS Integers, Sequences, FiniteSets, TLC

(***************************************************************************)
(* Bounds of the model.                                                    *)
(***************************************************************************)
\* bits of significand of the modelled floating-point format
Precision == 11
\* most files in the FoM directory
MaxFiles == 5
\* most lines of either prior mode in a grid file
MaxLines == 10
\* most rows of a strategy table
MaxRows == 2

(***************************************************************************)
(* Floating point.                                                         *)
(***************************************************************************)
RECURSIVE Pow2(_)
Pow2(n) == IF n <= 0 THEN 1 ELSE 2 * Pow2(n - 1)

\* 2^Precision and 2^(Precision-1)
TwoP == Pow2(Precision)
HalfP == Pow2(Precision - 1)

Abs(i) == IF i < 0 THEN -i ELSE i
Sgn(i) == IF i < 0 THEN -1 ELSE 1

NaN == [k |-> "nan", m |-> 0, e |-> 0]
Inf(s) == [k |-> "inf", m |-> s, e |-> 0]
Zero == [k |-> "fin", m |-> 0, e |-> 0]

\* the canonical form of m * 2^e: an odd significand, or zero
RECURSIVE Canon(_, _)
Canon(m, e) ==
    IF m = 0 THEN Zero
    ELSE IF m % 2 = 0 THEN Canon(m \div 2, e + 1)
    ELSE [k |-> "fin", m |-> m, e |-> e]

\* scale n/d * 2^e until 2^(Precision-1) <= n/d < 2^Precision
RECURSIVE Norm(_, _, _)
Norm(n, d, e) ==
    IF n >= d * TwoP THEN Norm(n, 2 * d, e + 1)
    ELSE IF n < d * HalfP THEN Norm(2 * n, d, e - 1)
    ELSE <<n, d, e>>

\* the float nearest to s * (n/d) * 2^e, ties to even (n >= 0, d > 0)
RoundRat(s, n, d, e) ==
    IF n = 0 THEN Zero
    ELSE LET t == Norm(n, d, e)
             q == t[1] \div t[2]
             r == t[1] % t[2]
             up == (2 * r > t[2]) \/ (2 * r = t[2] /\ q % 2 = 1)
         IN Canon(s * (IF up THEN q + 1 ELSE q), t[3])

FromInt(i) == RoundRat(Sgn(i), Abs(i), 1, 0)

One == FromInt(1)

\* x * y for finite x, y
FMul(x, y) == RoundRat(Sgn(x.m) * Sgn(y.m), Abs(x.m) * Abs(y.m), 1, x.e + y.e)

\* x / y for finite x, y: numpy's float64 division, no exception on zero
FDiv(x, y) ==
    IF y.m = 0
    THEN IF x.m = 0 THEN NaN ELSE Inf(Sgn(x.m))
    ELSE RoundRat(Sgn(x.m) * Sgn(y.m), Abs(x.m), Abs(y.m), x.e - y.e)

\* x > 0 (false for NaN)
FGtZero(x) == x.k # "nan" /\ x.m > 0

\* Python's x == y on floats (NaN equals nothing)
FEq(x, y) == x.k # "nan" /\ y.k # "nan" /\ x = y

(***************************************************************************)
(* Module-level constants of the script.                                   *)
(***************************************************************************)
\* year_vals = ['Y1', 'Y3', 'Y6', 'Y10'], each string as its characters
year_vals == << <<"Y", "1">>, <<"Y", "3">>, <<"Y", "6">>, <<"Y", "1", "0">> >>

Years == 1..Len(year_vals)

\* areas[i, y] in deg^2: rows 0..2, year index 1..4 (the source's 0..3)
areas ==
    [i \in 0..2 |->
       [y \in Years |->
          IF y = 1 THEN <<7500, 13000, 16000>>[i + 1]
                   ELSE <<10000, 15000, 20000>>[i + 1]]]

\* depths[j, y] in tenths of a magnitude
depths ==
    [j \in 0..2 |->
       [y \in Years |->
          CASE y = 1 -> <<249, 252, 255>>[j + 1]
            [] y = 2 -> <<255, 258, 261>>[j + 1]
            [] y = 3 -> <<259, 261, 263>>[j + 1]
            [] OTHER -> <<263, 265, 267>>[j + 1]]]

\* renorm_value = -100.0 at import
RenormInit == FromInt(-100)

(***************************************************************************)
(* Strings: Python's `sub in s`.                                           *)
(***************************************************************************)
In(sub, s) ==
    \E i \in 0..(Len(s) - Len(sub)) : SubSeq(s, i + 1, i + Len(sub)) = sub

(***************************************************************************)
(* Grid files.  A line is <label>=<decimal>; the label may contain the     *)
(* markers 'incl' and 'excl'; the decimal is num / 10^dec.                 *)
(***************************************************************************)
Line(hasIncl, hasExcl, num, dec) ==
    [incl |-> hasIncl, excl |-> hasExcl, num |-> num, dec |-> dec]

RECURSIVE Pow10(_)
Pow10(n) == IF n <= 0 THEN 1 ELSE 10 * Pow10(n - 1)

\* float(line.split('=')[1]): the nearest float to the decimal
ParseFloat(ln) == RoundRat(Sgn(ln.num), Abs(ln.num), Pow10(ln.dec), 0)

\* grep_str in line
HasMarker(ln, prior) == IF prior THEN ln.incl ELSE ln.excl

ZeroGrid == [i \in 0..2 |-> [j \in 0..2 |-> Zero]]

\* FillGrid filling the grid column by column
RECURSIVE FillGridColumnMajor(_, _, _, _, _)
FillGridColumnMajor(lines, k, prior, grid, n_found) ==
    IF k > Len(lines) THEN [err |-> "none", grid |-> grid, n |-> n_found]
    ELSE IF HasMarker(lines[k], prior)
         THEN IF n_found \div 3 > 2
              THEN [err |-> "IndexError", grid |-> grid, n |-> n_found]
              ELSE FillGridColumnMajor(lines, k + 1, prior,
                            [grid EXCEPT ![n_found % 3][n_found \div 3] =
                                             ParseFloat(lines[k])],
                            n_found + 1)
         ELSE FillGridColumnMajor(lines, k + 1, prior, grid, n_found)

\* lines 109-114: the loop over the lines of one file, from n_found on.
\* Returns the grid and n_found, or raises IndexError at the 10th match.
RECURSIVE FillGrid(_, _, _, _, _)
FillGrid(lines, k, prior, grid, n_found) ==
    IF k > Len(lines) THEN [err |-> "none", grid |-> grid, n |-> n_found]
    ELSE IF HasMarker(lines[k], prior)
         THEN IF n_found \div 3 > 2
              THEN [err |-> "IndexError", grid |-> grid, n |-> n_found]
              ELSE FillGrid(lines, k + 1, prior,
                            [grid EXCEPT ![n_found \div 3][n_found % 3] =
                                             ParseFloat(lines[k])],
                            n_found + 1)
         ELSE FillGrid(lines, k + 1, prior, grid, n_found)

\* Rescale with the ratio of the areas upside down
RescaleInverted(fom, a, b, y) ==
    FDiv(FMul(fom, FromInt(areas[b][y])), FromInt(areas[a][y]))

\* fom * areas[a] / areas[b], evaluated left to right
Rescale(fom, a, b, y) ==
    FDiv(FMul(fom, FromInt(areas[a][y])), FromInt(areas[b][y]))

\* lines 121-130: the six assignments of fake-area mode, in order
FakeArea(g, y) ==
    LET g1 == [g  EXCEPT ![1][0] = Rescale(g[0][0], 1, 0, y)]
        g2 == [g1 EXCEPT ![2][0] = Rescale(g1[0][0], 2, 0, y)]
        g3 == [g2 EXCEPT ![0][1] = Rescale(g2[1][1], 0, 1, y)]
        g4 == [g3 EXCEPT ![2][1] = Rescale(g3[1][1], 2, 1, y)]
        g5 == [g4 EXCEPT ![0][2] = Rescale(g4[2][2], 0, 2, y)]
        g6 == [g5 EXCEPT ![1][2] = Rescale(g5[2][2], 1, 2, y)]
    IN g6

(***************************************************************************)
(* File selection, lines 76-95.                                            *)
(***************************************************************************)
NoFile == <<>>

\* OtherFound with the substring test the wrong way round: a token that
\* contains year_str is passed over
OtherFoundSkipsLonger(file_name, year_str) ==
    \E t \in 1..Len(year_vals) :
        /\ year_vals[t] # year_str
        /\ ~ In(year_str, year_vals[t])
        /\ In(year_vals[t], file_name)

\* lines 81-85: some other year token, not a substring of year_str, occurs
OtherFound(file_name, year_str) ==
    \E t \in Years :
        /\ year_vals[t] # year_str
        /\ ~ In(year_vals[t], year_str)
        /\ In(year_vals[t], file_name)

\* ScanFiles keeping the first match and raising nothing on a second
RECURSIVE ScanFilesFirstWins(_, _, _, _)
ScanFilesFirstWins(file_list, k, year_str, my_file) ==
    IF k > Len(file_list) THEN [err |-> "none", file |-> my_file]
    ELSE LET file_name == file_list[k] IN
         IF In(year_str, file_name) /\ ~ OtherFound(file_name, year_str)
               /\ my_file = NoFile
         THEN ScanFilesFirstWins(file_list, k + 1, year_str, file_name)
         ELSE ScanFilesFirstWins(file_list, k + 1, year_str, my_file)

\* lines 77-93: the scan of file_list from position k with my_file so far
RECURSIVE ScanFiles(_, _, _, _)
ScanFiles(file_list, k, year_str, my_file) ==
    IF k > Len(file_list) THEN [err |-> "none", file |-> my_file]
    ELSE LET file_name == file_list[k] IN
         IF In(year_str, file_name) /\ ~ OtherFound(file_name, year_str)
         THEN IF my_file = NoFile
              THEN ScanFiles(file_list, k + 1, year_str, file_name)
              ELSE IF my_file # file_name
                   THEN [err |-> "found more than once", file |-> my_file]
                   ELSE ScanFiles(file_list, k + 1, year_str, my_file)
         ELSE ScanFiles(file_list, k + 1, year_str, my_file)

\* lines 76-95: the file of a year, or the ValueError raised
FindFile(file_list, year_str) ==
    LET r == ScanFiles(file_list, 1, year_str, NoFile) IN
    IF r.err # "none" THEN r
    ELSE IF r.file = NoFile THEN [err |-> "not found", file |-> NoFile]
    ELSE r


(***************************************************************************)
(* The inputs of the grid loader: the directory and its files.             *)
(***************************************************************************)
\* file names of a FoM directory, each as its characters
NamePool ==
    << <<"Y", "1">>, <<"Y", "3">>, <<"Y", "6">>, <<"Y", "1", "0">>,
       <<"Y", "1", "Y", "1", "0">>, <<"a", "Y", "1">>,
       <<"Y", "3", "Y", "6">> >>

\* the names of a set of pool positions in ascending position order
RECURSIVE NamesOf(_, _)
NamesOf(S, k) ==
    IF k > Len(NamePool) THEN <<>>
    ELSE (IF k \in S THEN <<NamePool[k]>> ELSE <<>>) \o NamesOf(S, k + 1)

Reverse(sq) == [k \in 1..Len(sq) |-> sq[Len(sq) + 1 - k]]

\* glob.glob returns each file once, in an order of the file system's choosing
Directories ==
    LET asc == { NamesOf(S, 1) :
                   S \in { T \in SUBSET (1..Len(NamePool)) :
                             Cardinality(T) <= MaxFiles } }
    IN asc \cup { Reverse(d) : d \in asc }

\* the decimal of the line at position p of a file: tenths
ValueAt(base, p) == base + 13 * p

\* nE 'excl' lines then nI 'incl' lines
RECURSIVE Blocks(_, _, _, _)
Blocks(nE, nI, base, p) ==
    IF nE > 0
    THEN <<Line(FALSE, TRUE, ValueAt(base, p), 1)>> \o Blocks(nE - 1, nI, base, p + 1)
    ELSE IF nI > 0
    THEN <<Line(TRUE, FALSE, ValueAt(base, p), 1)>> \o Blocks(nE, nI - 1, base, p + 1)
    ELSE <<>>

\* 'excl' and 'incl' lines in turn while both last, then the rest
RECURSIVE Alternate(_, _, _, _)
Alternate(nE, nI, base, p) ==
    IF nE > 0 /\ nI > 0
    THEN <<Line(FALSE, TRUE, ValueAt(base, p), 1),
           Line(TRUE, FALSE, ValueAt(base, p + 1), 1)>>
         \o Alternate(nE - 1, nI - 1, base, p + 2)
    ELSE Blocks(nE, nI, base, p)

\* a header line with neither marker, then alternating lines
Mixed(nE, nI, base) ==
    <<Line(FALSE, FALSE, 0, 0)>> \o Alternate(nE, nI, base, 2)

\* the contents a grid file may have
FilePool ==
    { Blocks(9, 9, 100, 1),
      Mixed(9, MaxLines, -30),
      Mixed(MaxLines, 9, -30),
      Blocks(8, 8, 387, 1),
      Blocks(0, 0, 0, 1) }

\* the lines of a file that contain the marker of the prior mode, in order
Matching(lines, pr) == SelectSeq(lines, LAMBDA ln : HasMarker(ln, pr))

(***************************************************************************)
(* The strategy table, lines 134-163.                                      *)
(***************************************************************************)
\* husni_metric, lines 43-62, in thousandths (the decimals beyond dropped)
husni_metric ==
    [n \in {"rolling_10yrs_opsim", "rolling_mix_10yrs_opsim", "baseline2018a",
            "colossus_2664", "colossus_2665", "colossus_2667", "kraken_2026",
            "kraken_2035", "kraken_2036", "kraken_2042", "kraken_2044",
            "mothra_2045", "nexus_2097", "pontus_2002", "pontus_2489",
            "alt_sched", "alt_sched_rolling", "pontus_2502", "mothra_2049"} |->
       CASE n = "rolling_10yrs_opsim"     -> <<19170, 67031, 140138, 233028>>
         [] n = "rolling_mix_10yrs_opsim" -> <<17827, 62796, 133488, 223601>>
         [] n = "baseline2018a"           -> <<14598, 65085, 147004, 258293>>
         [] n = "colossus_2664"           -> <<13983, 64041, 143773, 252140>>
         [] n = "colossus_2665"           -> <<14675, 65422, 145510, 257691>>
         [] n = "colossus_2667"           -> <<14156, 67017, 150840, 267879>>
         [] n = "kraken_2026"             -> <<15507, 67570, 150436, 267034>>
         [] n = "kraken_2035"             -> <<15751, 67162, 147685, 262566>>
         [] n = "kraken_2036"             -> <<15746, 54313, 111161, 216344>>
         [] n = "kraken_2042"             -> <<16664, 72250, 162075, 283985>>
         [] n = "kraken_2044"             -> <<10745, 49682, 114592, 201458>>
         [] n = "mothra_2045"             -> <<30524, 57793, 107633, 181367>>
         [] n = "nexus_2097"              -> <<11600, 49261, 105934, 196619>>
         [] n = "pontus_2002"             -> <<11785, 51902, 113136, 200763>>
         [] n = "pontus_2489"             -> <<24132, 96123, 208128, 369853>>
         [] n = "alt_sched"               -> <<19979, 56729, 112040, 185926>>
         [] n = "alt_sched_rolling"       -> <<37475, 53850, 109683, 184138>>
         [] n = "pontus_2502"             -> <<15488, 62171, 129363, 210578>>
         [] OTHER                         -> <<24335, 45695, 103205, 188753>>]

\* int(x) of a non-negative float given in thousandths
IntOfMilli(x) == x \div 1000

\* str.strip() on a field given as its characters
RECURSIVE LStrip(_)
LStrip(f) == IF f # <<>> /\ Head(f) = " " THEN LStrip(Tail(f)) ELSE f

RECURSIVE RStrip(_)
RStrip(f) ==
    IF f # <<>> /\ f[Len(f)] = " " THEN RStrip(SubSeq(f, 1, Len(f) - 1)) ELSE f

Strip(f) == RStrip(LStrip(f))

Digits == <<"0", "1", "2", "3", "4", "5", "6", "7", "8", "9">>

DigitValue(c) == (CHOOSE d \in 1..Len(Digits) : Digits[d] = c) - 1

IsDigit(c) == \E d \in 1..Len(Digits) : Digits[d] = c

\* int(s) accepts a non-empty run of decimal digits
IsIntText(f) == f # <<>> /\ \A k \in 1..Len(f) : IsDigit(f[k])

RECURSIVE IntText(_, _)
IntText(f, acc) ==
    IF f = <<>> THEN acc ELSE IntText(Tail(f), 10 * acc + DigitValue(Head(f)))

\* a row of the table: the stripped name, area (deg^2), depth (tenths),
\* the number of '|'-separated fields and the text of field 13, if any
Row(name, a, d, nfields, f13) ==
    [name |-> name, area |-> a, depth |-> d, nfields |-> nfields, f13 |-> f13]

\* HasVisitField accepting any row of 14 fields or more
HasVisitFieldAtLeast(row) == row.nfields >= 14 /\ row.f13 # <<>>

\* line 153: len(tmp_vals) == 14 and tmp_vals[13] != ''
HasVisitField(row) == row.nfields = 14 /\ row.f13 # <<>>

\* lines 153-160: the visit count of a row, or the ValueError of int()
Niexp(row, year_ind) ==
    IF HasVisitField(row)
    THEN IF IsIntText(Strip(row.f13))
         THEN [err |-> "none", val |-> IntText(Strip(row.f13), 0)]
         ELSE [err |-> "ValueError", val |-> 0]
    ELSE IF row.name \in DOMAIN husni_metric
         THEN [err |-> "none", val |-> IntOfMilli(husni_metric[row.name][year_ind])]
         ELSE [err |-> "none", val |-> 0]

\* the rows a strategy table may hold
RowPool ==
    { Row(n, 14000, 253, c[1], c[2]) :
        n \in {"kraken_2026", "pontus_2489", "my_strategy"},
        c \in { <<13, <<>> >>, <<14, <<>> >>, <<14, <<" ">> >>,
                <<14, <<" ", "4", "2", " ">> >>, <<14, <<"7">> >>,
                <<15, <<"7">> >> } }

RECURSIVE SeqsUpTo(_, _)
SeqsUpTo(S, n) ==
    IF n = 0 THEN { <<>> }
    ELSE LET shorter == SeqsUpTo(S, n - 1)
         IN shorter \cup { Append(sq, x) : sq \in shorter, x \in S }

(***************************************************************************)
(* The emulator, lines 173-251.  The interpolant f is scipy's linear       *)
(* interp2d through the nine grid points (bounds_error=False: a point      *)
(* outside the grid takes the value at the nearest edge), modelled as the  *)
(* piecewise-bilinear interpolant, correctly rounded.  Areas are in deg^2, *)
(* depths in tenths of a magnitude.  The diagnostic plots (lines 198-245)  *)
(* change no state and are left out.                                       *)
(***************************************************************************)
Clamp(v, lo, hi) == IF v < lo THEN lo ELSE IF v > hi THEN hi ELSE v

Min2(p, q) == IF p < q THEN p ELSE q

\* f(a, d)[0] for the interpolant f of line 177 on the grid of year y
Interp(grid, y, a, d) ==
    LET ac == Clamp(a, areas[0][y], areas[2][y])
        dc == Clamp(d, depths[0][y], depths[2][y])
        i == IF ac <= areas[1][y] THEN 0 ELSE 1
        j == IF dc <= depths[1][y] THEN 0 ELSE 1
        wa == ac - areas[i][y]
        va == areas[i + 1][y] - ac
        wd == dc - depths[j][y]
        vd == depths[j + 1][y] - dc
        emin == Min2(Min2(grid[i][j].e, grid[i + 1][j].e),
                     Min2(grid[i][j + 1].e, grid[i + 1][j + 1].e))
        Scaled(g) == g.m * Pow2(g.e - emin)
        num == Scaled(grid[i][j]) * va * vd + Scaled(grid[i + 1][j]) * wa * vd
               + Scaled(grid[i][j + 1]) * va * wd
               + Scaled(grid[i + 1][j + 1]) * wa * wd
        den == (wa + va) * (wd + vd)
    IN RoundRat(Sgn(num), Abs(num), den, emin)

\* list(strategy_name).index(x): the first position of x, 0 when absent
IndexOf(names, x) ==
    IF \E k \in 1..Len(names) : names[k] = x
    THEN CHOOSE k \in 1..Len(names) :
            names[k] = x /\ \A h \in 1..(k - 1) : names[h] # x
    ELSE 0

\* Cached never finding a value
CachedNever(rv) == FALSE

\* line 183: renorm_value > 0, a value is already there
Cached(rv) == FGtZero(rv)

\* Renorm dividing by the global when no strategy is configured
RenormUsesGlobal(rs, rv, grid, y, area_vals, depth_vals, strategy_name) ==
    IF rs # "None"
    THEN IF Cached(rv)
         THEN [err |-> "none", renorm_value |-> rv, tmp |-> rv, wrote |-> FALSE]
         ELSE LET tmp_ind == IndexOf(strategy_name, rs) IN
              IF tmp_ind = 0
              THEN [err |-> "ValueError", renorm_value |-> rv, tmp |-> rv,
                    wrote |-> FALSE]
              ELSE LET v == Interp(grid, y, area_vals[tmp_ind], depth_vals[tmp_ind])
                   IN [err |-> "none", renorm_value |-> v, tmp |-> v,
                       wrote |-> TRUE]
    ELSE [err |-> "none", renorm_value |-> rv, tmp |-> rv, wrote |-> FALSE]

\* lines 180-195: the renorm_value after the call and tmp_renorm_value,
\* or the ValueError of index()
Renorm(rs, rv, grid, y, area_vals, depth_vals, strategy_name) ==
    IF rs # "None"
    THEN IF Cached(rv)
         THEN [err |-> "none", renorm_value |-> rv, tmp |-> rv, wrote |-> FALSE]
         ELSE LET tmp_ind == IndexOf(strategy_name, rs) IN
              IF tmp_ind = 0
              THEN [err |-> "ValueError", renorm_value |-> rv, tmp |-> rv,
                    wrote |-> FALSE]
              ELSE LET v == Interp(grid, y, area_vals[tmp_ind], depth_vals[tmp_ind])
                   IN [err |-> "none", renorm_value |-> v, tmp |-> v,
                       wrote |-> TRUE]
    ELSE [err |-> "none", renorm_value |-> rv, tmp |-> One, wrote |-> FALSE]

\* lines 247-251: one value per (area, depth) pair, in order
FomVals(grid, y, area_vals, depth_vals, tmp_renorm_value) ==
    [ind \in 1..Len(area_vals) |->
       FDiv(Interp(grid, y, area_vals[ind], depth_vals[ind]), tmp_renorm_value)]

\* a strategy of a table: name, area (deg^2), median depth (tenths)
Strat(name, a, d) == [name |-> name, area |-> a, depth |-> d]

\* the strategy tables a year may have
EmuTables ==
    { << Strat("kraken_2026", 14000, 253), Strat("alt_sched", 9000, 250) >>,
      << Strat("alt_sched", 14000, 253), Strat("pontus_2489", 18000, 262) >>,
      << Strat("pontus_2489", 12000, 258), Strat("kraken_2026", 25000, 270),
         Strat("kraken_2026", 14000, 253) >>,
      << Strat("kraken_2026", 15000, 261) >> }

\* the grids load_foms may have returned: every cell positive, or the last
\* cell zero (a file whose ninth line reads 0.0, or one of eight lines)
GridOf(kind, shift, y) ==
    [i \in 0..2 |-> [j \in 0..2 |->
        IF kind = "zero_corner" /\ i = 2 /\ j = 2 THEN Zero
        ELSE FromInt(10 * y + 3 * i + j + 1 + shift)]]

VARIABLES
    \* load_foms
    file_list,      \* glob's list of the directory
    prior,          \* the prior argument
    fake_area,      \* the fake_area argument (the script passes its global)
    year_i,         \* position of the loop over year_vals, 1..5
    load_pc,        \* "loop", "returned" or "raised"
    load_err,       \* the error raised, or "none"
    my_file,        \* my_file of each year processed so far
    file_lines,     \* lines read from my_file, per year
    fom_arr,        \* fom_arr[year][area][depth]
    \* load_strategy_table
    year_str,       \* the year argument, as its position in year_vals
    infile_exists,  \* os.path.exists(infile)
    table_lines,    \* the rows of the table file
    line_k,         \* position of the loop over the rows
    table_pc,       \* "open", "loop", "returned" or "raised"
    strat_name, area, median_depth, niexp,  \* the lists being built
    \* the script's loop over the years, lines 262-352
    renorm_strategy,        \* the global of line 25, "None" for None
    renorm_value,           \* the global of line 27
    foms_prior, foms_noprior,   \* the grids of lines 254 and 256
    year_ind,               \* the loop variable, 1..4
    emu_pc,                 \* "table", "noprior", "prior", "report", "done", "raised"
    tmp_strat, tmp_area, tmp_depth,     \* the table of the year, line 321
    emulated_fom_noprior, emulated_fom_prior,   \* lines 322 and 327
    \* what the calls of emulate_fom did, for the properties
    last_call,              \* the latest call: its inputs and its outcome
    renorm_writes,          \* the values assigned to renorm_value, in order
    n_calls                 \* calls of emulate_fom that returned

loadVars ==
    <<file_list, prior, fake_area, year_i, load_pc, load_err, my_file,
      file_lines, fom_arr>>

tableVars ==
    <<year_str, infile_exists, table_lines, line_k, table_pc, strat_name,
      area, median_depth, niexp>>

emuVars ==
    <<renorm_strategy, renorm_value, foms_prior, foms_noprior, year_ind,
      emu_pc, tmp_strat, tmp_area, tmp_depth, emulated_fom_noprior,
      emulated_fom_prior, last_call, renorm_writes, n_calls>>

vars == <<loadVars, tableVars, emuVars>>

NoCall ==
    [made |-> FALSE, prior |-> FALSE, year |-> 1, grid |-> ZeroGrid,
     names |-> <<>>, area |-> <<>>, depth |-> <<>>, before |-> RenormInit,
     tmp |-> One, err |-> "none", out |-> <<>>]

\* the emulator is not running
EmuIdle ==
    /\ renorm_strategy = "None"
    /\ renorm_value = RenormInit
    /\ foms_prior = [y \in Years |-> ZeroGrid]
    /\ foms_noprior = [y \in Years |-> ZeroGrid]
    /\ year_ind = 1
    /\ emu_pc = "idle"
    /\ tmp_strat = <<>>
    /\ tmp_area = <<>>
    /\ tmp_depth = <<>>
    /\ emulated_fom_noprior = <<>>
    /\ emulated_fom_prior = <<>>
    /\ last_call = NoCall
    /\ renorm_writes = <<>>
    /\ n_calls = 0

\* the loader is not running
LoadIdle ==
    /\ file_list = <<>>
    /\ prior = FALSE
    /\ year_i = 1
    /\ load_pc = "idle"
    /\ load_err = "none"
    /\ my_file = [y \in Years |-> NoFile]
    /\ file_lines = [y \in Years |-> <<>>]
    /\ fom_arr = [y \in Years |-> ZeroGrid]

\* the table loader is not running
TableIdle ==
    /\ year_str = 1
    /\ infile_exists = FALSE
    /\ table_lines = <<>>
    /\ line_k = 1
    /\ table_pc = "idle"
    /\ strat_name = <<>>
    /\ area = <<>>
    /\ median_depth = <<>>
    /\ niexp = <<>>

InitLoad ==
    /\ file_list \in Directories
    /\ prior \in BOOLEAN
    /\ fake_area \in BOOLEAN
    /\ year_i = 1
    /\ load_pc = "loop"
    /\ load_err = "none"
    /\ my_file = [y \in Years |-> NoFile]
    /\ file_lines = [y \in Years |-> <<>>]
    /\ fom_arr = [y \in Years |-> ZeroGrid]
    /\ TableIdle
    /\ EmuIdle

\* lines 74-130: one pass of the loop over year_vals
LoadFomsYear ==
    /\ load_pc = "loop"
    /\ year_i <= Len(year_vals)
    /\ LET sel == FindFile(file_list, year_vals[year_i]) IN
       IF sel.err # "none"
       THEN /\ load_pc' = "raised"
            /\ load_err' = sel.err
            /\ UNCHANGED <<year_i, my_file, file_lines, fom_arr>>
       ELSE \E lines \in FilePool :
              LET r == FillGrid(lines, 1, prior, fom_arr[year_i], 0) IN
              /\ my_file' = [my_file EXCEPT ![year_i] = sel.file]
              /\ file_lines' = [file_lines EXCEPT ![year_i] = lines]
              /\ IF r.err # "none"
                 THEN /\ load_pc' = "raised"
                      /\ load_err' = r.err
                      /\ UNCHANGED <<year_i, fom_arr>>
                 ELSE /\ fom_arr' = [fom_arr EXCEPT ![year_i] =
                                       IF fake_area THEN FakeArea(r.grid, year_i)
                                                    ELSE r.grid]
                      /\ year_i' = year_i + 1
                      /\ UNCHANGED <<load_pc, load_err>>
    /\ UNCHANGED <<file_list, prior, fake_area>>
    /\ UNCHANGED <<tableVars, emuVars>>

\* line 132: return fom_arr
LoadFomsReturn ==
    /\ load_pc = "loop"
    /\ year_i > Len(year_vals)
    /\ load_pc' = "returned"
    /\ UNCHANGED <<file_list, prior, fake_area, year_i, load_err, my_file,
                   file_lines, fom_arr>>
    /\ UNCHANGED <<tableVars, emuVars>>

NextLoad == LoadFomsYear \/ LoadFomsReturn

SpecLoad == InitLoad /\ [][NextLoad]_vars

InitTable ==
    /\ year_str \in Years
    /\ infile_exists \in BOOLEAN
    /\ table_lines \in (IF infile_exists THEN SeqsUpTo(RowPool, MaxRows) ELSE { <<>> })
    /\ line_k = 1
    /\ table_pc = "open"
    /\ strat_name = <<>>
    /\ area = <<>>
    /\ median_depth = <<>>
    /\ niexp = <<>>
    /\ fake_area = FALSE
    /\ LoadIdle
    /\ EmuIdle

\* lines 135-147: the file must exist
LoadStrategyTableOpen ==
    /\ table_pc = "open"
    /\ table_pc' = IF infile_exists THEN "loop" ELSE "raised"
    /\ UNCHANGED <<year_str, infile_exists, table_lines, line_k, strat_name,
                   area, median_depth, niexp>>
    /\ UNCHANGED <<loadVars, emuVars>>

\* lines 148-160: one row
LoadStrategyTableLine ==
    /\ table_pc = "loop"
    /\ line_k <= Len(table_lines)
    /\ LET row == table_lines[line_k]
           n == Niexp(row, year_str)
       IN /\ strat_name' = Append(strat_name, row.name)
          /\ area' = Append(area, row.area)
          /\ median_depth' = Append(median_depth, row.depth)
          /\ IF n.err # "none"
             THEN /\ table_pc' = "raised"
                  /\ UNCHANGED <<niexp, line_k>>
             ELSE /\ niexp' = Append(niexp, n.val)
                  /\ line_k' = line_k + 1
                  /\ UNCHANGED table_pc
    /\ UNCHANGED <<year_str, infile_exists, table_lines>>
    /\ UNCHANGED <<loadVars, emuVars>>

\* lines 161-163: return the four arrays
LoadStrategyTableReturn ==
    /\ table_pc = "loop"
    /\ line_k > Len(table_lines)
    /\ table_pc' = "returned"
    /\ UNCHANGED <<year_str, infile_exists, table_lines, line_k, strat_name,
                   area, median_depth, niexp>>
    /\ UNCHANGED <<loadVars, emuVars>>

NextTable ==
    LoadStrategyTableOpen \/ LoadStrategyTableLine \/ LoadStrategyTableReturn

SpecTable == InitTable /\ [][NextTable]_vars

\* fake_area alone of the loader's variables belongs to the script
loadOnly ==
    <<file_list, prior, year_i, load_pc, load_err, my_file, file_lines, fom_arr>>

InitEmu ==
    /\ renorm_strategy \in {"None", "kraken_2026"}
    /\ renorm_value = RenormInit
    /\ fake_area \in BOOLEAN
    /\ \E kp \in {"full", "zero_corner"} :
          foms_prior = [y \in Years |-> GridOf(kp, 5, y)]
    /\ \E kn \in {"full", "zero_corner"} :
          foms_noprior = [y \in Years |-> GridOf(kn, 0, y)]
    /\ year_ind = 1
    /\ emu_pc = "table"
    /\ tmp_strat = <<>>
    /\ tmp_area = <<>>
    /\ tmp_depth = <<>>
    /\ emulated_fom_noprior = <<>>
    /\ emulated_fom_prior = <<>>
    /\ last_call = NoCall
    /\ renorm_writes = <<>>
    /\ n_calls = 0
    /\ LoadIdle
    /\ TableIdle

\* line 321: the table of the year
LoadTableForYear ==
    /\ emu_pc = "table"
    /\ \E t \in EmuTables :
          /\ tmp_strat' = [k \in 1..Len(t) |-> t[k].name]
          /\ tmp_area' = [k \in 1..Len(t) |-> t[k].area]
          /\ tmp_depth' = [k \in 1..Len(t) |-> t[k].depth]
    /\ emu_pc' = "noprior"
    /\ UNCHANGED <<renorm_strategy, renorm_value, foms_prior, foms_noprior,
                   year_ind, emulated_fom_noprior, emulated_fom_prior,
                   last_call, renorm_writes, n_calls>>
    /\ UNCHANGED <<loadOnly, fake_area, tableVars>>

\* lines 173-251: a call of emulate_fom on the grid of the year; what it
\* leaves in renorm_value and what it returns or raises
EmulateFom(grid, withPrior) ==
    LET r == Renorm(renorm_strategy, renorm_value, grid, year_ind,
                    tmp_area, tmp_depth, tmp_strat)
        out == IF r.err = "none"
               THEN FomVals(grid, year_ind, tmp_area, tmp_depth, r.tmp)
               ELSE <<>>
    IN /\ renorm_value' = r.renorm_value
       /\ renorm_writes' = IF r.wrote THEN Append(renorm_writes, r.renorm_value)
                                      ELSE renorm_writes
       /\ n_calls' = IF r.err = "none" THEN n_calls + 1 ELSE n_calls
       /\ last_call' = [made |-> TRUE, prior |-> withPrior, year |-> year_ind,
                        grid |-> grid, names |-> tmp_strat, area |-> tmp_area,
                        depth |-> tmp_depth, before |-> renorm_value,
                        tmp |-> r.tmp, err |-> r.err, out |-> out]

\* lines 322-325
EmulateNoPrior ==
    /\ emu_pc = "noprior"
    /\ EmulateFom(foms_noprior[year_ind], FALSE)
    /\ emu_pc' = IF last_call'.err # "none" THEN "raised"
                 ELSE IF fake_area THEN "report" ELSE "prior"
    /\ emulated_fom_noprior' = IF last_call'.err = "none" THEN last_call'.out
                               ELSE emulated_fom_noprior
    /\ UNCHANGED <<renorm_strategy, foms_prior, foms_noprior, year_ind,
                   tmp_strat, tmp_area, tmp_depth, emulated_fom_prior>>
    /\ UNCHANGED <<loadOnly, fake_area, tableVars>>

\* lines 326-330
EmulatePrior ==
    /\ emu_pc = "prior"
    /\ EmulateFom(foms_prior[year_ind], TRUE)
    /\ emu_pc' = IF last_call'.err # "none" THEN "raised" ELSE "report"
    /\ emulated_fom_prior' = IF last_call'.err = "none" THEN last_call'.out
                             ELSE emulated_fom_prior
    /\ UNCHANGED <<renorm_strategy, foms_prior, foms_noprior, year_ind,
                   tmp_strat, tmp_area, tmp_depth, emulated_fom_noprior>>
    /\ UNCHANGED <<loadOnly, fake_area, tableVars>>

\* lines 331-352 and the loop's step: the ranking is printed
ReportYear ==
    /\ emu_pc = "report"
    /\ IF year_ind < Len(year_vals)
       THEN /\ year_ind' = year_ind + 1
            /\ emu_pc' = "table"
       ELSE /\ emu_pc' = "done"
            /\ UNCHANGED year_ind
    /\ UNCHANGED <<renorm_strategy, renorm_value, foms_prior, foms_noprior,
                   tmp_strat, tmp_area, tmp_depth, emulated_fom_noprior,
                   emulated_fom_prior, last_call, renorm_writes, n_calls>>
    /\ UNCHANGED <<loadOnly, fake_area, tableVars>>

NextEmu == LoadTableForYear \/ EmulateNoPrior \/ EmulatePrior \/ ReportYear

SpecEmu == InitEmu /\ [][NextEmu]_vars

(***************************************************************************)
(* Properties of the grid loader, checked under SpecLoad.                  *)
(***************************************************************************)
\* the year's pass of the loop ended without an error
Loaded(y) == y < year_i

\* the year's pass of the loop ran, to its end or to an error
Processed(y) == Loaded(y) \/ (load_pc = "raised" /\ year_i = y)

\* the lines of the year's file that match the prior mode
Matched(y) == Matching(file_lines[y], prior)

\* a name qualifies for a year: it contains the year's token and no other
\* year's token, apart from a token that is a substring of the year's
Qualifies(name, y) ==
    /\ In(year_vals[y], name)
    /\ \A t \in Years :
         (t # y /\ In(year_vals[t], name)) => In(year_vals[t], year_vals[y])

Qualifying(y) ==
    { file_list[k] : k \in { h \in 1..Len(file_list) : Qualifies(file_list[h], y) } }

\* C3, as stated: for a file with exactly 9 lines of the requested prior
\* mode, the returned grid read row by row is the sequence of those lines'
\* values, the n-th in cell (n // 3, n % 3).
C3_RowMajorAlways ==
    \A y \in Years :
        (Loaded(y) /\ Len(Matched(y)) = 9) =>
            \A n \in 0..8 :
                fom_arr[y][n \div 3][n % 3] = ParseFloat(Matched(y)[n + 1])

\* C3, amended: with fake-area mode off the grid read row by row is the
\* sequence of the 9 matching lines' values; with fake-area mode on only
\* the diagonal cells (n = 0, 4, 8) keep their lines' values.
C3_RowMajor ==
    \A y \in Years :
        (Loaded(y) /\ Len(Matched(y)) = 9) =>
            \A n \in 0..8 :
                (~ fake_area \/ n \div 3 = n % 3) =>
                    fom_arr[y][n \div 3][n % 3] = ParseFloat(Matched(y)[n + 1])

\* a year loaded, fake-area off, from a file of 9 matching lines with lines
\* of the other mode among them, and the grid holds distinct values
C3_Witness ==
    \E y \in Years :
        /\ Loaded(y)
        /\ ~ fake_area
        /\ Len(Matched(y)) = 9
        /\ Len(file_lines[y]) > 9
        /\ \E k \in 2..Len(file_lines[y]) :
              /\ ~ HasMarker(file_lines[y][k - 1], prior)
              /\ HasMarker(file_lines[y][k], prior)
        /\ fom_arr[y][0][1] # fom_arr[y][1][0]

\* C4, as stated: load_foms fails whenever the file of a year does not hold
\* exactly 9 lines of the requested prior mode: no year is loaded from a
\* file with another count.
C4_FailsUnlessNine ==
    \A y \in Years : Loaded(y) => Len(Matched(y)) = 9

\* C5: the file chosen for Y1 never contains both "Y1" and "Y10".
C5_Y1NotY10 ==
    my_file[1] # NoFile =>
        ~ (In(year_vals[1], my_file[1]) /\ In(year_vals[4], my_file[1]))

\* a file was chosen for Y1 from a directory that holds a name with both
\* tokens
C5_Witness ==
    /\ my_file[1] # NoFile
    /\ \E k \in 1..Len(file_list) :
          In(year_vals[1], file_list[k]) /\ In(year_vals[4], file_list[k])

\* C6: the years are processed in order; a year with no qualifying file
\* raises "not found", a year with several raises "found more than once",
\* and a file is read only for a year with exactly one, that one.
C6_ExactlyOneOrFatal ==
    \A y \in Years :
        /\ Processed(y) =>
              /\ \A z \in 1..(y - 1) : Loaded(z)
              /\ Cardinality(Qualifying(y)) = 0 =>
                    /\ load_pc = "raised" /\ year_i = y
                    /\ load_err = "not found"
                    /\ my_file[y] = NoFile
              /\ Cardinality(Qualifying(y)) > 1 =>
                    /\ load_pc = "raised" /\ year_i = y
                    /\ load_err = "found more than once"
                    /\ my_file[y] = NoFile
              /\ Cardinality(Qualifying(y)) = 1 =>
                    /\ my_file[y] \in Qualifying(y)
                    /\ ~ Loaded(y) => load_err = "IndexError"
        /\ my_file[y] # NoFile => Qualifying(y) = {my_file[y]}
        /\ ~ Processed(y) => my_file[y] = NoFile

\* three years were loaded and Y10 has two qualifying files
C6_Witness ==
    /\ load_pc = "raised"
    /\ load_err = "found more than once"
    /\ year_i = 4
    /\ Cardinality(Qualifying(4)) = 2

\* C8, as stated: in fake-area mode every off-diagonal cell stands to the
\* diagonal cell of its depth column in the ratio of the year's areas,
\* grid[i,j] * areas[j] == grid[j,j] * areas[i], exactly, and the diagonal
\* keeps the values read.
C8_RatioExact ==
    fake_area =>
        \A y \in Years : Loaded(y) =>
            \A i \in 0..2, j \in 0..2 :
                IF i # j
                THEN FEq(FMul(fom_arr[y][i][j], FromInt(areas[j][y])),
                         FMul(fom_arr[y][j][j], FromInt(areas[i][y])))
                ELSE fom_arr[y][i][i] =
                        IF Len(Matched(y)) > 4 * i
                        THEN ParseFloat(Matched(y)[4 * i + 1]) ELSE Zero

\* C8, amended: in fake-area mode every off-diagonal cell is the diagonal
\* cell of its depth column times areas[i], then divided by areas[j], each
\* step rounded to a float; the diagonal keeps the values read.
C8_RatioRounded ==
    fake_area =>
        \A y \in Years : Loaded(y) =>
            \A i \in 0..2, j \in 0..2 :
                IF i # j
                THEN fom_arr[y][i][j] =
                        FDiv(FMul(fom_arr[y][j][j], FromInt(areas[i][y])),
                             FromInt(areas[j][y]))
                ELSE fom_arr[y][i][i] =
                        IF Len(Matched(y)) > 4 * i
                        THEN ParseFloat(Matched(y)[4 * i + 1]) ELSE Zero

\* a year loaded in fake-area mode from 9 lines, with a rescaled cell that
\* differs from the value the file gave it
C8_Witness ==
    /\ fake_area
    /\ \E y \in Years :
          /\ Loaded(y)
          /\ Len(Matched(y)) = 9
          /\ fom_arr[y][1][0] # ParseFloat(Matched(y)[4])
          /\ fom_arr[y][0][0] # Zero

(***************************************************************************)
(* Properties of the strategy-table loader, checked under SpecTable.       *)
(***************************************************************************)
\* C7, as stated: the visit count of a row is the integer value of field
\* 13 when the row has exactly 14 fields and field 13 is not empty, and
\* otherwise the hardcoded table's entry for the name and year, or 0 for a
\* name the table does not hold.
C7_VisitCountIsEntry ==
    \A k \in 1..Len(niexp) :
        LET row == table_lines[k] IN
        IF row.nfields = 14 /\ row.f13 # <<>>
        THEN IsIntText(Strip(row.f13)) /\ niexp[k] = IntText(Strip(row.f13), 0)
        ELSE IF row.name \in DOMAIN husni_metric
             THEN niexp[k] * 1000 = husni_metric[row.name][year_str]
             ELSE niexp[k] = 0

\* C7, amended: the visit count of a row is the integer value of field 13
\* when the row has exactly 14 fields and field 13, stripped of blanks, is
\* a decimal integer; a field 13 that is not empty and not such an integer
\* makes the load raise; otherwise the count is the integer part of the
\* hardcoded table's entry for the name and year, or 0 for a name the
\* table does not hold.
C7_VisitCount ==
    /\ \A k \in 1..Len(niexp) :
          LET row == table_lines[k] IN
          IF row.nfields = 14 /\ row.f13 # <<>>
          THEN IsIntText(Strip(row.f13)) /\ niexp[k] = IntText(Strip(row.f13), 0)
          ELSE IF row.name \in DOMAIN husni_metric
               THEN /\ niexp[k] * 1000 <= husni_metric[row.name][year_str]
                    /\ husni_metric[row.name][year_str] < (niexp[k] + 1) * 1000
               ELSE niexp[k] = 0
    /\ (table_pc = "raised" /\ infile_exists) =>
          LET row == table_lines[line_k] IN
          /\ row.nfields = 14 /\ row.f13 # <<>>
          /\ ~ IsIntText(Strip(row.f13))
    /\ table_pc = "returned" => Len(niexp) = Len(table_lines)
    /\ table_pc \in {"loop", "returned"} => Len(niexp) = line_k - 1

\* a table of two rows was returned: the count of the first from its field
\* 13, ' 42 ', that of the second from the hardcoded table
C7_Witness ==
    /\ table_pc = "returned"
    /\ Len(table_lines) = 2
    /\ table_lines[1].nfields = 14 /\ table_lines[1].f13 = <<" ", "4", "2", " ">>
    /\ table_lines[2].nfields = 15 /\ table_lines[2].name = "kraken_2026"
    /\ year_str = 2
    /\ niexp = <<42, 67>>

(***************************************************************************)
(* Properties of the emulator, checked under SpecEmu.                      *)
(***************************************************************************)
\* the latest call of emulate_fom returned
Returned == last_call.made /\ last_call.err = "none"

\* the place of the renormalization strategy in the latest call's list
RefInd == IndexOf(last_call.names, renorm_strategy)

\* C1, as stated: in every call with a renormalization strategy configured
\* and present in the list, the output entry of that strategy is exactly
\* 1.0.  Stated here only for the calls whose renormalization constant is
\* neither zero nor NaN.
C1_ReferenceIsOne ==
    (Returned /\ renorm_strategy # "None" /\ RefInd # 0
       /\ last_call.tmp.k = "fin" /\ last_call.tmp.m # 0) =>
        last_call.out[RefInd] = One

\* C2, as stated: every call made with a renormalization strategy
\* configured and absent from the strategy list raises and returns nothing.
C2_AbsentAlwaysRaises ==
    (last_call.made /\ renorm_strategy # "None" /\ RefInd = 0) =>
        (last_call.err # "none" /\ last_call.out = <<>>)

\* C9: a call that returns gives one value per (area, depth) pair, in
\* order, the interpolant at the pair divided by the call's
\* renormalization constant; with no strategy configured the constant is 1,
\* the values are the raw interpolated ones and renorm_value stays as it
\* was at import; with one configured the constant is the value cached
\* before the call, or else the interpolant at the strategy's own pair.
C9_OnePerPairInOrder ==
    Returned =>
        /\ Len(last_call.out) = Len(last_call.area)
        /\ \A k \in 1..Len(last_call.area) :
              last_call.out[k] =
                  FDiv(Interp(last_call.grid, last_call.year,
                              last_call.area[k], last_call.depth[k]),
                       last_call.tmp)
        /\ renorm_strategy = "None" =>
              /\ last_call.tmp = FromInt(1)
              /\ \A k \in 1..Len(last_call.area) :
                    last_call.out[k] =
                        Interp(last_call.grid, last_call.year,
                               last_call.area[k], last_call.depth[k])
              /\ renorm_value = FromInt(-100)
              /\ renorm_writes = <<>>
        /\ renorm_strategy # "None" =>
              last_call.tmp =
                  IF FGtZero(last_call.before) THEN last_call.before
                  ELSE Interp(last_call.grid, last_call.year,
                              last_call.area[RefInd], last_call.depth[RefInd])
        /\ (IF last_call.prior THEN emulated_fom_prior
                               ELSE emulated_fom_noprior) = last_call.out

\* a call with no strategy configured returned three values, not all equal
C9_Witness ==
    /\ Returned
    /\ renorm_strategy = "None"
    /\ Len(last_call.out) = 3
    /\ last_call.out[1] # last_call.out[2]
    /\ last_call.year = 3

\* C10, as stated: renorm_value is written at most once, whatever value the
\* first computation produced.
C10_WrittenOnce == Len(renorm_writes) <= 1

\* C10, amended: renorm_value is written at most once provided the value
\* stored is positive: after a positive value is stored every later call
\* reads it and writes nothing; a stored value that is zero or negative is
\* not taken as cached, and the next call computes and stores again.
C10_WrittenOnceIfPositive ==
    /\ \A k \in 1..(Len(renorm_writes) - 1) : ~ FGtZero(renorm_writes[k])
    /\ renorm_writes # <<>> => renorm_value = renorm_writes[Len(renorm_writes)]
    /\ renorm_writes = <<>> => renorm_value = FromInt(-100)
    /\ (Returned /\ renorm_strategy # "None" /\ FGtZero(last_call.before)) =>
          (renorm_value = last_call.before /\ last_call.tmp = last_call.before)

\* a positive value was stored once and calls of a later year have read it
C10_Witness ==
    /\ Len(renorm_writes) = 1
    /\ FGtZero(renorm_value)
    /\ Returned
    /\ last_call.year = 4
    /\ last_call.prior
    /\ n_calls = 8

=============================================================================
